---- MODULE Spec2Model ----
(***************************************************************************)
(* SolidLineMesh: displacement-aware picking of extruded line features.    *)
(*                                                                         *)
(* Numbers.  The source computes in floating point; the model computes the *)
(* same expressions exactly.  Coordinates are integers, a point on a ray   *)
(* is a pair (numerators, denominator), a sphere is kept as its doubled    *)
(* centre c2 = 2*center and r4 = (2*radius)^2, and every comparison the    *)
(* code makes on square roots or quotients is made on cross-multiplied     *)
(* integers.                                                               *)
(*                                                                         *)
(* Indices.  The source's arrays are 0-based; a sequence s of the model    *)
(* holds the source's s[k] at s[k + 1].                                    *)
(***************************************************************************)
EXTENDS Integers, Sequences, FiniteSets

\* ---------------------------------------------------------------- bounds
\* Ray origins are taken over the grid 0..GridMax x 0..GridMax (local units).
GridMax == 4
\* Line widths of the material range over 1..MaxWidth.
MaxWidth == 2
\* Displacement magnitudes (map samples, range.min, range.max) are in 0..MaxDispl.
MaxDispl == 1
\* The caller's list holds at most MaxPending records when raycast is called.
MaxPending == 2

\* ------------------------------------------------------- program constants
\* const step = 6; // Two triangles per segment.
step == 6

\* ------------------------------------------------------------ THREE.Vector3
Vec(x, y, z) == <<x, y, z>>
Add(u, v) == <<u[1] + v[1], u[2] + v[2], u[3] + v[3]>>
Sub(u, v) == <<u[1] - v[1], u[2] - v[2], u[3] - v[3]>>
Scale(u, k) == <<u[1] * k, u[2] * k, u[3] * k>>
Dot(u, v) == u[1] * v[1] + u[2] * v[2] + u[3] * v[3]
Cross(u, v) ==
    <<u[2] * v[3] - u[3] * v[2], u[3] * v[1] - u[1] * v[3], u[1] * v[2] - u[2] * v[1]>>
LengthSq(u) == Dot(u, u)
Zero3 == <<0, 0, 0>>

Min2(a, b) == IF a <= b THEN a ELSE b
Max2(a, b) == IF a >= b THEN a ELSE b
SetMin(S) == CHOOSE m \in S : \A x \in S : m <= x
SetMax(S) == CHOOSE m \in S : \A x \in S : m >= x
Abs(a) == IF a < 0 THEN -a ELSE a

RECURSIVE Gcd(_, _)
Gcd(a, b) == IF b = 0 THEN a ELSE Gcd(b, a % b)
\* A non-negative quotient num/den (den > 0) in lowest terms.
Frac(num, den) ==
    LET g == Gcd(Abs(num), den)
    IN  IF g = 0 THEN <<num, den>> ELSE <<num \div g, den \div g>>

\* ------------------------------------------------------------- input meshes
(***************************************************************************)
(* The meshes raycast is exercised on.  A line geometry holds, per vertex, *)
(* a position, a normal and a bitangent (the extrusion direction), and an  *)
(* index buffer with six indices per segment of which index[i] is the      *)
(* segment's start vertex and index[i + 2] its end vertex.  `scale` is the *)
(* mesh's uniform scale: matrixWorld scales by it and neither rotates nor  *)
(* translates.  `starts` is the feature metadata the owner supplies        *)
(* (userData.feature.starts), NoStarts when it supplies none.              *)
(***************************************************************************)
NoIndex == <<-1>>
NoStarts == <<-1>>
Up == <<0, 0, 1>>

\* Six indices of the segment from vertex a to vertex b.
SegmentIndices(a, b) == <<a, a, b, b, b, a>>

\* One long segment, one feature.
SingleGeometry ==
    [kind |-> "BufferGeometry",
     index |-> SegmentIndices(0, 1),
     position |-> <<Vec(0, 0, 0), Vec(4, 2, 0)>>,
     normal |-> <<Up, Up>>,
     bitangent |-> <<Vec(-1, 2, 0), Vec(-1, 2, 0)>>]

\* Three segments in the plane z = 0: a corner and a detached stretch.
RoadGeometry ==
    [kind |-> "BufferGeometry",
     index |-> SegmentIndices(0, 1) \o SegmentIndices(1, 2) \o SegmentIndices(3, 4),
     position |-> <<Vec(0, 0, 0), Vec(2, 0, 0), Vec(2, 2, 0), Vec(0, 3, 0), Vec(2, 3, 0)>>,
     normal |-> <<Up, Up, Up, Up, Up>>,
     bitangent |-> <<Vec(0, 1, 0), Vec(-1, 0, 0), Vec(-1, 0, 0), Vec(0, 1, 0), Vec(0, 1, 0)>>]

\* A line string climbing in space: its segments' start vertices sit on
\* edges of their bounding box, none on a corner.
RidgeGeometry ==
    [kind |-> "BufferGeometry",
     index |-> SegmentIndices(0, 1) \o SegmentIndices(1, 2) \o SegmentIndices(2, 3),
     position |-> <<Vec(0, 0, 1), Vec(2, 1, 0), Vec(1, 2, 2), Vec(4, 3, 2)>>,
     normal |-> <<Up, Up, Up, Up>>,
     bitangent |-> <<Vec(-1, 2, 0), Vec(1, 1, 0), Vec(-1, 3, 0), Vec(-1, 3, 0)>>]

\* A line string that repeats its last point: its second segment has no
\* length.
KnotGeometry ==
    [kind |-> "BufferGeometry",
     index |-> SegmentIndices(0, 1) \o SegmentIndices(1, 2),
     position |-> <<Vec(0, 0, 0), Vec(2, 0, 0), Vec(2, 0, 0)>>,
     normal |-> <<Up, Up, Up>>,
     bitangent |-> <<Vec(0, 1, 0), Vec(0, 1, 0), Vec(0, 1, 0)>>]

\* A THREE.BufferGeometry without an index buffer (geometry.index === null).
SoupGeometry == [SingleGeometry EXCEPT !.index = NoIndex]

\* A legacy THREE.Geometry: not a BufferGeometry at all.
LegacyGeometry == [SoupGeometry EXCEPT !.kind = "Geometry"]

Meshes ==
    { [geometry |-> SingleGeometry, scale |-> 1, starts |-> NoStarts],
      [geometry |-> RoadGeometry, scale |-> 2, starts |-> <<0, 12>>],
      [geometry |-> RoadGeometry, scale |-> 2, starts |-> <<0, 6, 12>>],
      [geometry |-> RidgeGeometry, scale |-> 1, starts |-> NoStarts],
      [geometry |-> KnotGeometry, scale |-> 1, starts |-> NoStarts],
      [geometry |-> SoupGeometry, scale |-> 1, starts |-> NoStarts],
      [geometry |-> LegacyGeometry, scale |-> 1, starts |-> NoStarts] }

\* ------------------------------------------------- materials, displacement
(***************************************************************************)
(* material.displacementMap is [type, even, odd]: type "none" for a        *)
(* material without the displacement feature, "texture" for a displacement *)
(* map that is no THREE.DataTexture, "data" for a data texture whose       *)
(* sample at the uv of vertex v is `even` for even v and `odd` for odd v.  *)
(* The data textures of the model are lowest at the even vertices.         *)
(***************************************************************************)
NoMap(type) == [type |-> type, even |-> 0, odd |-> 0]
DataTextures == {t \in [type : {"data"}, even : 0..MaxDispl, odd : 0..MaxDispl] : t.even <= t.odd}
DisplacementMaps == {NoMap("none"), NoMap("texture")} \cup DataTextures
Materials == [displacementMap : DisplacementMaps, lineWidth : 1..MaxWidth, outlineWidth : {0}]
NoRange == [min |-> -1, max |-> -1]

\* hasDisplacementFeature(material) && material.displacementMap instanceof DataTexture
IsDataTexture(map) == map.type = "data"
\* Bilinear sample of the displacement map at the uv of vertex v.
SampleMap(map, v) == IF v % 2 = 0 THEN map.even ELSE map.odd
\* The range reported for a displacement map: its least and greatest sample.
RangeOf(map) == [min |-> Min2(map.even, map.odd), max |-> Max2(map.even, map.odd)]

\* ------------------------------------------ displaced views of the geometry
(***************************************************************************)
(* The mesh's active geometry is a reference: "original" is the geometry   *)
(* the mesh was built with, "displaced" is its own m_displacedGeometry.    *)
(* DisplacedBufferGeometry and DisplacedBufferAttribute are collaborators: *)
(* the view passes the index buffer and the attributes of its original     *)
(* geometry through and replaces the position attribute by the displaced   *)
(* one, position + normal * sample(displacementMap, uv).                   *)
(***************************************************************************)
NoView ==
    [present |-> FALSE, originalGeometry |-> "original",
     displacementMap |-> NoMap("none"), displacementRange |-> NoRange]
NoAttribute ==
    [present |-> FALSE, originalAttribute |-> "original", displacementMap |-> NoMap("none")]

\* new DisplacedBufferGeometry(geometry, map, range, positions) and
\* DisplacedBufferGeometry.reset(geometry, map, range) bind the same fields.
DisplacedBufferGeometry(geometryRef, displacementMap, displacementRange) ==
    [present |-> TRUE, originalGeometry |-> geometryRef,
     displacementMap |-> displacementMap, displacementRange |-> displacementRange]

\* new DisplacedBufferAttribute(position, normal, uv, map) and its reset(...).
DisplacedBufferAttribute(geometryRef, displacementMap) ==
    [present |-> TRUE, originalAttribute |-> geometryRef, displacementMap |-> displacementMap]

\* this.geometry instanceof THREE.BufferGeometry
IsBufferGeometry(g, geometryRef) == geometryRef = "displaced" \/ g.kind = "BufferGeometry"

\* vector.fromBufferAttribute(position, v) on the active geometry.
FromBufferAttribute(g, geometryRef, positions, v) ==
    IF geometryRef = "displaced"
    THEN Add(g.position[v + 1], Scale(g.normal[v + 1], SampleMap(positions.displacementMap, v)))
    ELSE g.position[v + 1]

\* ---------------------------------------------------- computeBoundingSphere
\* The indices computeBoundingSphere visits: beginIdx, beginIdx + step, ...
SampledIndices(beginIdx, endIdx) ==
    {i \in beginIdx..(endIdx - 1) : (i - beginIdx) % step = 0}

BoxMin(points) ==
    <<SetMin({p[1] : p \in points}), SetMin({p[2] : p \in points}),
      SetMin({p[3] : p \in points})>>
BoxMax(points) ==
    <<SetMax({p[1] : p \in points}), SetMax({p[2] : p \in points}),
      SetMax({p[3] : p \in points})>>

\* Sphere [c2, r4]: centre c2 / 2, radius sqrt(r4) / 2.
computeBoundingSphere(g, geometryRef, positions, beginIdx, endIdx, normal, displacementRange) ==
    LET sampled == {FromBufferAttribute(g, geometryRef, positions, g.index[i + 1]) :
                        i \in SampledIndices(beginIdx, endIdx)}
        box1 == [min |-> BoxMin(sampled), max |-> BoxMax(sampled)]
    IN  IF displacementRange # NoRange
        THEN LET minDispl == Scale(normal, displacementRange.min)
                 maxDispl == Scale(normal, displacementRange.max)
                 corners == {Add(box1.min, minDispl), Add(box1.max, minDispl),
                             Add(box1.min, maxDispl), Add(box1.max, maxDispl)}
                 box2 == [min |-> BoxMin(corners), max |-> BoxMax(corners)]
             IN  \* Box3.getBoundingSphere: the box's centre, half its diagonal.
                 [c2 |-> Add(box2.min, box2.max), r4 |-> LengthSq(Sub(box2.max, box2.min))]
        ELSE LET c2 == Add(box1.min, box1.max)
             IN  [c2 |-> c2, r4 |-> SetMax({LengthSq(Sub(Scale(p, 2), c2)) : p \in sampled})]

\* --------------------------------------------------------- featureIntersect
(***************************************************************************)
(* A query q is the raycaster and the mesh's read-only surroundings at the *)
(* call: q.origin and q.direction (raycaster.ray, world space, direction a *)
(* unit vector), q.near, q.far, q.material (this.material) and q.range     *)
(* (what m_getDisplacementRange returns).                                  *)
(***************************************************************************)
\* threshold = lineWidth + outlineWidth
Threshold(material) == material.lineWidth + material.outlineWidth

\* tmpRay: raycaster.ray under the inverse of matrixWorld.
LocalOrigin(origin, scale) == <<origin[1] \div scale, origin[2] \div scale, origin[3] \div scale>>

\* x <= (a * sqrt(b) + c)^2, for a, b, c >= 0.
LeqSquaredSum(x, a, b, c) ==
    LET rest == x - a * a * b - c * c
    IN  rest <= 0 \/ rest * rest <= 4 * a * a * c * c * b

\* tmpSphere = bSphere under matrixWorld, radius += threshold;
\* raycaster.ray.intersectsSphere(tmpSphere).
intersectsSphere(origin, direction, bSphere, scale, threshold) ==
    LET center2 == Scale(bSphere.c2, scale)
        origin2 == Scale(origin, 2)
        directionDistance2 == Dot(Sub(center2, origin2), direction)
        closest2 == IF directionDistance2 < 0
                    THEN origin2
                    ELSE Add(origin2, Scale(direction, directionDistance2))
    IN  LeqSquaredSum(LengthSq(Sub(closest2, center2)), scale, bSphere.r4, 2 * threshold)

\* plane.setFromCoplanarPoints(vStart, vStart + vExtrusion, vEnd): its normal,
\* before normalisation.
PlaneNormal(vStart, vExtrusion, vEnd) ==
    Cross(Sub(vEnd, Add(vStart, vExtrusion)), Sub(vStart, Add(vStart, vExtrusion)))

\* tmpRay.intersectPlane(plane): the ray parameter t = num / den (den > 0) of
\* the hit, or no hit.  A ray lying in the plane hits it at t = 0.
intersectPlane(o, direction, vStart, normal) ==
    LET den == Dot(normal, direction)
        num == -Dot(normal, Sub(o, vStart))
    IN  IF den = 0
        THEN [hit |-> num = 0, num |-> 0, den |-> 1]
        ELSE IF den < 0
             THEN [hit |-> -num >= 0, num |-> -num, den |-> -den]
             ELSE [hit |-> num >= 0, num |-> num, den |-> den]

\* line.closestPointToPoint(p, true, ...) and p.distanceToSquared(it), for the
\* point p = P / den: the squared distance as <<numerator, denominator>>.
DistanceToSegmentSq(P, den, vStart, vEnd) ==
    LET e == Sub(vEnd, vStart)
        startEnd2 == LengthSq(e)
        Q == Sub(P, Scale(vStart, den))
        R == Sub(P, Scale(vEnd, den))
        along == Dot(Q, e)
    IN  IF along <= 0 THEN <<LengthSq(Q), den * den>>
        ELSE IF along >= den * startEnd2 THEN <<LengthSq(R), den * den>>
        ELSE <<startEnd2 * LengthSq(Q) - along * along, den * den * startEnd2>>

\* distSq > localThresholdSq, with localThreshold = threshold / scale.
ExceedsThreshold(distSq, threshold, scale) ==
    distSq[1] * scale * scale > threshold * threshold * distSq[2]

\* One pass of featureIntersect's loop body, for the segment at index i: the
\* records it pushes (none or one).  For a segment without length
\* closestPointToPoint divides 0 by 0: distSq is NaN and `distSq >
\* localThresholdSq` is false.
segmentIntersect(g, geometryRef, positions, scale, q, i) ==
    LET a == g.index[i + 1]
        b == g.index[i + 3]
        vStart == FromBufferAttribute(g, geometryRef, positions, a)
        vEnd == FromBufferAttribute(g, geometryRef, positions, b)
        vExtrusion == g.bitangent[a + 1]
        o == LocalOrigin(q.origin, scale)
        t == intersectPlane(o, q.direction, vStart, PlaneNormal(vStart, vExtrusion, vEnd))
        interPlane == Add(Scale(o, t.den), Scale(q.direction, t.num))
        distSq == DistanceToSegmentSq(interPlane, t.den, vStart, vEnd)
    IN  IF ~t.hit THEN <<>>
        ELSE IF vStart # vEnd /\ ExceedsThreshold(distSq, Threshold(q.material), scale) THEN <<>>
        ELSE IF scale * t.num < q.near * t.den \/ scale * t.num > q.far * t.den THEN <<>>
        ELSE << [distance |-> Frac(scale * t.num, t.den),
                 point |-> [num |-> Scale(interPlane, scale), den |-> t.den],
                 index |-> i,
                 object |-> "this"] >>

\* The loop with each segment's record put in front of the records of the
\* segments before it.
RECURSIVE segmentLoopBackwards(_, _, _, _, _, _, _)
segmentLoopBackwards(g, geometryRef, positions, scale, q, i, endIdx) ==
    IF i >= endIdx THEN <<>>
    ELSE segmentLoopBackwards(g, geometryRef, positions, scale, q, i + step, endIdx)
            \o segmentIntersect(g, geometryRef, positions, scale, q, i)

RECURSIVE segmentLoop(_, _, _, _, _, _, _)
segmentLoop(g, geometryRef, positions, scale, q, i, endIdx) ==
    IF i >= endIdx THEN <<>>
    ELSE segmentIntersect(g, geometryRef, positions, scale, q, i)
            \o segmentLoop(g, geometryRef, positions, scale, q, i + step, endIdx)

\* The records featureIntersect pushes for the feature [beginIdx, endIdx).
featureIntersect(g, geometryRef, positions, scale, q, beginIdx, endIdx, bSphere) ==
    IF ~intersectsSphere(q.origin, q.direction, bSphere, scale, Threshold(q.material))
    THEN <<>>
    ELSE segmentLoop(g, geometryRef, positions, scale, q, beginIdx, endIdx)

\* -------------------------------------------------------------- raycastImpl
(***************************************************************************)
(* userData.feature: absent, or an object with the owner's `starts` (or    *)
(* none) and, once raycastImpl ran, the list `boundingVolumes`.            *)
(***************************************************************************)
NoFeature ==
    [present |-> FALSE, starts |-> NoStarts, hasVolumes |-> FALSE, boundingVolumes |-> <<>>]

\* if (!this.userData.feature) feature = {};
\* if (!feature.boundingVolumes) feature.boundingVolumes = [];
InitFeature(feature) == [feature EXCEPT !.present = TRUE, !.hasVolumes = TRUE]

\* this.userData.feature.starts ?? [0]
FeatureStarts(feature) == IF feature.starts = NoStarts THEN <<0>> ELSE feature.starts

\* endIdx with every feature run to the end of the index buffer.
FeatureEndAtBufferEnd(featureStarts, i, indexLength) == indexLength
\* const endIdx = i === length - 1 ? indices.length : featureStarts[i + 1];
FeatureEnd(featureStarts, i, indexLength) ==
    IF i = Len(featureStarts) - 1 THEN indexLength ELSE featureStarts[i + 2]

\* The cache test left out: a sphere is pushed for every feature of every call.
NeedsVolumeAlways(i, bVolumes) == TRUE
\* if (i >= bVolumes.length) bVolumes.push(computeBoundingSphere(...))
NeedsVolume(i, bVolumes) == i >= Len(bVolumes)

\* The loop over the features, from feature i on.  c holds what the loop reads
\* (geometry, positions, query, featureStarts, tmpNormal, displacementRange);
\* acc what it has written: the cache, the records pushed and, for the
\* record, the ranges visited, the sphere used for each and the indices of
\* the features whose sphere it computed.
RECURSIVE featureLoop(_, _, _)
featureLoop(c, i, acc) ==
    IF i >= Len(c.featureStarts) THEN acc
    ELSE LET beginIdx == c.featureStarts[i + 1]
             endIdx == FeatureEnd(c.featureStarts, i, Len(c.g.index))
             compute == NeedsVolume(i, acc.boundingVolumes)
             bVolumes ==
                 IF compute
                 THEN Append(acc.boundingVolumes,
                             computeBoundingSphere(c.g, c.geometryRef, c.positions, beginIdx,
                                                   endIdx, c.normal, c.displacementRange))
                 ELSE acc.boundingVolumes
         IN  featureLoop(c, i + 1,
                 [boundingVolumes |-> bVolumes,
                  pushed |-> acc.pushed
                                \o featureIntersect(c.g, c.geometryRef, c.positions, c.scale,
                                                    c.q, beginIdx, endIdx, bVolumes[i + 1]),
                  ranges |-> Append(acc.ranges, <<beginIdx, endIdx>>),
                  spheres |-> Append(acc.spheres, bVolumes[i + 1]),
                  computed |-> IF compute THEN acc.computed \cup {i} ELSE acc.computed])

\* assert(false) of @here/harp-utils: the failure is raised to the caller of
\* raycast (an abort-style assertion), so no statement after it runs.
Throws(outcome) == outcome = "assert"

\* raycastImpl at a failed assertion (lines 311-320): nothing was pushed.
AssertionFailed(feature) ==
    [outcome |-> "assert", feature |-> feature, pushed |-> <<>>, ranges |-> <<>>,
     spheres |-> <<>>, computed |-> {}]

\* What raycastImpl returns past its feature loop: `ready` is userData.feature
\* as lines 324-331 left it, `done` what the loop wrote.
Completed(ready, done) ==
    [outcome |-> "ok",
     feature |-> [ready EXCEPT !.boundingVolumes = done.boundingVolumes],
     pushed |-> done.pushed, ranges |-> done.ranges, spheres |-> done.spheres,
     computed |-> done.computed]

\* Lines 333-365 on userData.feature as lines 324-331 left it.
raycastImplReady(g, scale, geometryRef, view, positions, ready, q) ==
    Completed(ready,
        featureLoop(
            [g |-> g, geometryRef |-> geometryRef, positions |-> positions,
             scale |-> scale, q |-> q, featureStarts |-> FeatureStarts(ready),
             \* tmpNormal.fromBufferAttribute(geometry.attributes.normal, 0)
             normal |-> g.normal[1],
             displacementRange |-> IF geometryRef = "displaced" /\ view.present
                                   THEN view.displacementRange
                                   ELSE NoRange],
            0,
            [boundingVolumes |-> ready.boundingVolumes, pushed |-> <<>>,
             ranges |-> <<>>, spheres |-> <<>>, computed |-> {}]))

\* raycastImpl past its two assertions (lines 322-365).
raycastImplIndexed(g, scale, geometryRef, view, positions, feature, q) ==
    raycastImplReady(g, scale, geometryRef, view, positions, InitFeature(feature), q)

\* geometry instanceof THREE.BufferGeometry && geometry.index !== null
IsIndexed(g, geometryRef) == IsBufferGeometry(g, geometryRef) /\ g.index # NoIndex

\* raycastImpl with the feature metadata set up before the assertions.
raycastImplEager(g, scale, geometryRef, view, positions, feature, q) ==
    IF ~IsIndexed(g, geometryRef) THEN AssertionFailed(InitFeature(feature))
    ELSE raycastImplIndexed(g, scale, geometryRef, view, positions, feature, q)

raycastImpl(g, scale, geometryRef, view, positions, feature, q) ==
    IF ~IsIndexed(g, geometryRef) THEN AssertionFailed(feature)
    ELSE raycastImplIndexed(g, scale, geometryRef, view, positions, feature, q)

\* ------------------------------------------------------------------ raycast
\* The test of lines 270-274 without its instanceof THREE.DataTexture.
TakesDisplacedPathUntyped(g, geometryRef, material) ==
    IsBufferGeometry(g, geometryRef) /\ material.displacementMap.type # "none"
\* The test of lines 270-274 fails: the displaced path is taken.
TakesDisplacedPath(g, geometryRef, material) ==
    IsBufferGeometry(g, geometryRef) /\ IsDataTexture(material.displacementMap)

\* Lines 281-290 with the texture left out of the view's first binding.
BindViewUnmapped(geometryRef, view, positions, displacementMap, displacementRange) ==
    IF view.present
    THEN [view |-> DisplacedBufferGeometry(geometryRef, displacementMap, displacementRange),
          positions |-> DisplacedBufferAttribute(geometryRef, displacementMap)]
    ELSE [view |-> DisplacedBufferGeometry(geometryRef, displacementMap, displacementRange),
          positions |-> DisplacedBufferAttribute(geometryRef, [displacementMap EXCEPT !.even = 0, !.odd = 0])]

\* Lines 281-290: m_displacedGeometry is reset when it exists and built, with
\* the shared position attribute (getDisplacedPositionAttribute), when not.
BindView(geometryRef, view, positions, displacementMap, displacementRange) ==
    IF view.present
    THEN [view |-> DisplacedBufferGeometry(geometryRef, displacementMap, displacementRange),
          positions |-> DisplacedBufferAttribute(geometryRef, displacementMap)]
    ELSE [view |-> DisplacedBufferGeometry(geometryRef, displacementMap, displacementRange),
          positions |-> DisplacedBufferAttribute(geometryRef, displacementMap)]

\* Lines 293-295: this.geometry after the displaced path.  The assignment of
\* line 295 runs only when raycastImpl returned.
GeometryAfter(outcome, view) ==
    IF Throws(outcome) THEN "displaced" ELSE view.originalGeometry

\* What a call of raycast leaves and reports: the path it took, the mesh's
\* fields after it, and of raycastImpl's result r the outcome, the feature
\* metadata and what was pushed and visited.
Returned(path, geometry, view, positions, r) ==
    [path |-> path, outcome |-> r.outcome, geometry |-> geometry, view |-> view,
     positions |-> positions, feature |-> r.feature, pushed |-> r.pushed,
     ranges |-> r.ranges, spheres |-> r.spheres, computed |-> r.computed]

\* Lines 293-295: what raycast leaves when raycastImpl, on the view `bound`,
\* did r.
raycastDisplaced(bound, r) ==
    Returned("displaced", GeometryAfter(r.outcome, bound.view), bound.view, bound.positions, r)

\* Lines 281-295 on the view `bound` that lines 281-290 left.
raycastBound(g, scale, feature, q, bound) ==
    raycastDisplaced(bound, raycastImpl(g, scale, "displaced", bound.view, bound.positions,
                                        feature, q))

\* raycast: the mesh's fields after the call, and what the call did.
raycast(g, scale, geometryRef, view, positions, feature, q) ==
    IF ~TakesDisplacedPath(g, geometryRef, q.material)
    THEN Returned("fallback", geometryRef, view, positions,
                  raycastImpl(g, scale, geometryRef, view, positions, feature, q))
    ELSE raycastBound(g, scale, feature, q,
                      BindView(geometryRef, view, positions, q.material.displacementMap, q.range))

\* ------------------------------------------------------------ state machine
VARIABLES
    mesh,                 \* the mesh's geometry data and scale (never written)
    geometry,             \* this.geometry: "original" or "displaced"
    m_displacedGeometry,  \* this.m_displacedGeometry
    displacedPositions,   \* SolidLineMesh.displacedPositions (static)
    feature,              \* this.userData.feature
    intersects,           \* the caller's list of intersections
    pending,              \* the query the caller is about to make
    last                  \* the latest call: its query, the fields before it, what it did

vars == <<mesh, geometry, m_displacedGeometry, displacedPositions, feature, intersects,
          pending, last>>

\* Height of the origins of the vertical rays (local units).
RayHeight == 6
Down == <<0, 0, -1>>
East == <<1, 0, 0>>
\* The rays, in the mesh's local frame: straight down on every grid point and
\* eastwards along every grid row of the plane z = 0.
LocalRays ==
    {[origin |-> Vec(x, y, RayHeight), direction |-> Down] : x \in 0..GridMax, y \in 0..GridMax}
        \cup {[origin |-> Vec(0, y, 0), direction |-> East] : y \in 0..GridMax}
NearFar == {[near |-> 0, far |-> 100], [near |-> 5, far |-> 11]}

NoQuery ==
    [active |-> FALSE, repeat |-> FALSE, origin |-> Zero3, direction |-> Zero3, near |-> 0,
     far |-> 0, material |-> [displacementMap |-> NoMap("none"), lineWidth |-> 1,
                              outlineWidth |-> 0],
     range |-> NoRange]

\* The range provider reports the range of the material's data texture; it is
\* not asked when there is none.
ReportedRange(material) ==
    IF IsDataTexture(material.displacementMap) THEN RangeOf(material.displacementMap)
    ELSE NoRange

\* The queries a caller can make of a mesh of the given scale.
Queries(scale) ==
    {[active |-> TRUE, repeat |-> FALSE, origin |-> Scale(ray.origin, scale),
      direction |-> ray.direction, near |-> nf.near, far |-> nf.far, material |-> m,
      range |-> ReportedRange(m)] :
        ray \in LocalRays, nf \in NearFar, m \in Materials}

NoCall ==
    [valid |-> FALSE, q |-> NoQuery, path |-> "none", outcome |-> "none",
     geometryBefore |-> "original", viewBefore |-> NoView, featureBefore |-> NoFeature,
     intersectsBefore |-> <<>>, pushed |-> <<>>, ranges |-> <<>>, spheres |-> <<>>,
     computed |-> {}, previous |-> <<>>]

Init ==
    /\ mesh \in Meshes
    /\ geometry = "original"
    /\ m_displacedGeometry = NoView
    /\ displacedPositions = NoAttribute
    /\ feature = IF mesh.starts = NoStarts THEN NoFeature
                 ELSE [NoFeature EXCEPT !.present = TRUE, !.starts = mesh.starts]
    /\ intersects = <<>>
    /\ pending = NoQuery
    /\ last = NoCall

\* The caller sets up a raycaster for its next query.
Request ==
    /\ ~pending.active
    /\ ~last.valid
    /\ \E q \in Queries(mesh.scale) : pending' = q
    /\ UNCHANGED <<mesh, geometry, m_displacedGeometry, displacedPositions, feature,
                   intersects, last>>

\* The caller takes its list away and starts over with an empty one; the
\* record of the latest call goes with it.
Release ==
    /\ ~pending.active
    /\ last.valid
    /\ intersects' = <<>>
    /\ last' = NoCall
    /\ UNCHANGED <<mesh, geometry, m_displacedGeometry, displacedPositions, feature, pending>>

\* The caller makes the query it just made a second time, on the same list.
Repeat ==
    /\ ~pending.active
    /\ last.valid
    /\ ~last.q.repeat
    /\ Len(intersects) <= MaxPending
    /\ pending' = [last.q EXCEPT !.repeat = TRUE]
    /\ UNCHANGED <<mesh, geometry, m_displacedGeometry, displacedPositions, feature,
                   intersects, last>>

\* mesh.raycast(raycaster, intersects)
Raycast ==
    /\ pending.active
    /\ \E r \in {raycast(mesh.geometry, mesh.scale, geometry, m_displacedGeometry,
                         displacedPositions, feature, pending)} :
           /\ geometry' = r.geometry
           /\ m_displacedGeometry' = r.view
           /\ displacedPositions' = r.positions
           /\ feature' = r.feature
           /\ intersects' = intersects \o r.pushed
           /\ last' = [valid |-> TRUE, q |-> pending, path |-> r.path, outcome |-> r.outcome,
                       geometryBefore |-> geometry, viewBefore |-> m_displacedGeometry,
                       featureBefore |-> feature, intersectsBefore |-> intersects,
                       pushed |-> r.pushed, ranges |-> r.ranges, spheres |-> r.spheres,
                       computed |-> r.computed,
                       previous |-> IF last.valid THEN last.pushed ELSE <<>>]
    /\ pending' = NoQuery
    /\ UNCHANGED mesh

Next ==
    \/ Request
    \/ Repeat
    \/ Release
    \/ Raycast

Spec == Init /\ [][Next]_vars

\* ------------------------------------------------------------------- claims
\* What the latest call worked on.
LastStarts == FeatureStarts(InitFeature(last.featureBefore))
\* The geometry reference that was active while raycastImpl ran.
LastGeometryRef == IF last.path = "displaced" THEN "displaced" ELSE last.geometryBefore
\* The position of vertex v in the geometry that was active during the call.
LastPosition(v) ==
    FromBufferAttribute(mesh.geometry, LastGeometryRef,
                        [displacementMap |-> last.q.material.displacementMap], v)
\* The position of vertex v in the geometry the mesh was built with.
BasePosition(v) == mesh.geometry.position[v + 1]
\* The point p lies in the sphere [c2, r4].
InSphere(sphere, p) == LengthSq(Sub(Scale(p, 2), sphere.c2)) <= sphere.r4

\* C1: after every call of raycast, however it ended, the mesh's active
\* geometry is the one it had before the call, and it is never the mesh's own
\* displaced view.
C1_GeometryRestored ==
    /\ last.valid => geometry = last.geometryBefore
    /\ geometry # "displaced"

\* The sphere contains the point p moved along the normal by range.min and
\* by range.max.
CoversRange(sphere, p, normal, range) ==
    /\ InSphere(sphere, Add(p, Scale(normal, range.min)))
    /\ InSphere(sphere, Add(p, Scale(normal, range.max)))

\* C2: in a displaced raycast the sphere used for feature k contains every
\* sampled centerline vertex of the feature moved along the sampled normal by
\* range.min and by range.max of the range of that call.  The vertex is read
\* either way: as the geometry the mesh was built with holds it, or as the
\* position attribute that is active during the call returns it.
C2_DisplacedSphereCoversRange ==
    (last.valid /\ last.path = "displaced" /\ last.outcome = "ok") =>
        \A k \in 1..Len(last.ranges) :
            \A i \in SampledIndices(last.ranges[k][1], last.ranges[k][2]) :
                LET v == mesh.geometry.index[i + 1]
                    normal == mesh.geometry.normal[1]
                IN  \/ CoversRange(last.spheres[k], BasePosition(v), normal, last.q.range)
                    \/ CoversRange(last.spheres[k], LastPosition(v), normal, last.q.range)

\* The ray of the latest call, in the mesh's local frame.
LastLocalOrigin == LocalOrigin(last.q.origin, mesh.scale)
\* Twice the ray parameter at which the local ray of the latest call passes
\* through the midpoint of [vStart, vEnd], or -1 when it does not.
MidpointParameter2(vStart, vEnd) ==
    LET toMid2 == Sub(Add(vStart, vEnd), Scale(LastLocalOrigin, 2))
        m == Dot(toMid2, last.q.direction)
    IN  IF m >= 0 /\ toMid2 = Scale(last.q.direction, m) THEN m ELSE -1
\* The positions in the list `records` of the records of the segment at index i.
RecordsOf(records, i) == {j \in 1..Len(records) : records[j].index = i}

\* The ray of the latest call crosses the plane of the ribbon of the segment
\* at index i (it does not run parallel to it).
CrossesRibbonPlane(i) ==
    LET a == mesh.geometry.index[i + 1]
        normal == PlaneNormal(LastPosition(a), mesh.geometry.bitangent[a + 1],
                              LastPosition(mesh.geometry.index[i + 3]))
    IN  Dot(normal, last.q.direction) # 0

\* C3: a ray aimed at the midpoint of a segment's centerline (and crossing the
\* plane of its ribbon), the midpoint at a distance within [near, far], yields
\* exactly one record for the segment, at the distance of the midpoint; the
\* bounding sphere never suppresses it.
C3_MidpointRayHits ==
    (last.valid /\ last.outcome = "ok") =>
        \A k \in 1..Len(last.ranges) :
            \A i \in SampledIndices(last.ranges[k][1], last.ranges[k][2]) :
                LET m == MidpointParameter2(LastPosition(mesh.geometry.index[i + 1]),
                                            LastPosition(mesh.geometry.index[i + 3]))
                    distance2 == mesh.scale * m
                IN  (/\ m >= 0
                     /\ CrossesRibbonPlane(i)
                     /\ 2 * last.q.near <= distance2
                     /\ distance2 <= 2 * last.q.far) =>
                        /\ Cardinality(RecordsOf(last.pushed, i)) = 1
                        /\ \A j \in RecordsOf(last.pushed, i) :
                               last.pushed[j].distance[1] * 2
                                   = distance2 * last.pushed[j].distance[2]

\* The query of the latest call with the displacement taken off its material.
UndisplacedQuery ==
    [last.q EXCEPT !.material.displacementMap = NoMap("none"), !.range = NoRange]

\* C4: with the displacement range (0, 0), a raycast through the displaced
\* path on a mesh whose cache is empty pushes the records, in the same order,
\* that the same raycast with displacement disabled pushes on that mesh.
C4_ZeroRangeMatchesUndisplaced ==
    (/\ last.valid
     /\ last.path = "displaced"
     /\ last.q.range = [min |-> 0, max |-> 0]
     /\ last.featureBefore.boundingVolumes = <<>>) =>
        last.pushed = raycast(mesh.geometry, mesh.scale, last.geometryBefore, last.viewBefore,
                              NoAttribute, last.featureBefore, UndisplacedQuery).pushed

\* The material of the latest call has no displacement capability, or its
\* displacement source is no data texture.
LastUndisplaced == last.valid /\ last.q.material.displacementMap.type # "data"

C6_CacheAppendOnly ==
    last.valid =>
        LET before == last.featureBefore.boundingVolumes
            after == feature.boundingVolumes
        IN  /\ Len(before) <= Len(after)
            /\ \A j \in 1..Len(before) : after[j] = before[j]
            /\ last.outcome = "ok" =>
                  /\ last.computed = {i \in 0..(Len(LastStarts) - 1) : i >= Len(before)}
                  /\ Len(after) >= Len(LastStarts)
                  /\ \A i \in 0..(Len(LastStarts) - 1) : last.spheres[i + 1] = after[i + 1]
C6_CacheReusedWitness ==
    /\ last.valid
    /\ last.outcome = "ok"
    /\ Len(last.featureBefore.boundingVolumes) = 3
    /\ last.computed = {}
    /\ last.pushed # <<>>

RecordDistanceSq(r) ==
    DistanceToSegmentSq(r.point.num, mesh.scale * r.point.den,
                        LastPosition(mesh.geometry.index[r.index + 1]),
                        LastPosition(mesh.geometry.index[r.index + 3]))

\* C8: every record raycast pushes has its point within localThreshold =
\* threshold / scale of the clamped centerline of the record's segment.
C8_RecordsWithinThreshold ==
    last.valid =>
        \A k \in 1..Len(last.pushed) :
            LET distSq == RecordDistanceSq(last.pushed[k])
                threshold == Threshold(last.q.material)
            IN  distSq[1] * mesh.scale * mesh.scale <= threshold * threshold * distSq[2]

\* C9: a second raycast with the ray, near/far, material and displacement
\* range of the call before it pushes the records that call pushed, in the
\* same order.
C9_RepeatedCallSameRecords ==
    (last.valid /\ last.q.repeat) => last.pushed = last.previous
C9_RepeatedCallWitness ==
    /\ last.valid
    /\ last.q.repeat
    /\ last.path = "displaced"
    /\ last.viewBefore.present
    /\ last.q.material.displacementMap.odd > 0
    /\ last.computed = {}
    /\ last.pushed # <<>>

\* C10: the index ranges a completed raycastImpl iterates partition the index
\* buffer: the first begins at 0, each is non-empty and ends where the next
\* begins, the last ends at the index buffer's length, and there is one per
\* feature start (one range, the whole buffer, without feature metadata).
C10_FeatureRangesPartition ==
    (last.valid /\ last.outcome = "ok") =>
        LET ranges == last.ranges
            n == Len(ranges)
        IN  /\ n = Len(LastStarts)
            /\ ranges[1][1] = 0
            /\ ranges[n][2] = Len(mesh.geometry.index)
            /\ \A i \in 1..n : ranges[i][1] < ranges[i][2]
            /\ \A i \in 1..(n - 1) : ranges[i][2] = ranges[i + 1][1]
            /\ mesh.starts = NoStarts => ranges = << <<0, Len(mesh.geometry.index)>> >>
C10_ThreeFeaturesWitness ==
    /\ last.valid
    /\ last.outcome = "ok"
    /\ Len(last.ranges) = 3
    /\ last.ranges[2] = <<6, 12>>
    /\ last.pushed # <<>>

\* The records the loop body of featureIntersect pushes for the segment at
\* index i under the query and the geometry of the latest call.
LastSegmentRecords(i) ==
    segmentIntersect(mesh.geometry, LastGeometryRef,
                     [displacementMap |-> last.q.material.displacementMap],
                     mesh.scale, last.q, i)

\* C11: raycast only appends to the caller's list.  The entries the list held
\* before the call are its prefix after the call and the records of the call
\* follow them; these come by ascending feature and, within a feature, by
\* ascending segment start index (each segment start of a visited feature at
\* most once, whatever the distances), and each record is the one its
\* segment, the segment starting at the record's index, produces.
C11_AppendsInSegmentOrder ==
    last.valid =>
        /\ intersects = last.intersectsBefore \o last.pushed
        /\ \A j \in 1..Len(last.pushed) :
               /\ \E k \in 1..Len(last.ranges) :
                      last.pushed[j].index
                          \in SampledIndices(last.ranges[k][1], last.ranges[k][2])
               /\ LastSegmentRecords(last.pushed[j].index) = <<last.pushed[j]>>
        /\ \A j \in 1..(Len(last.pushed) - 1) :
               last.pushed[j].index < last.pushed[j + 1].index
\* A repeated call on a list that holds two records appends the same two
\* again, the farther one first.
C11_AppendsUnsortedWitness ==
    /\ last.valid
    /\ last.q.repeat
    /\ Len(last.intersectsBefore) = 2
    /\ Len(last.pushed) = 2
    /\ intersects = last.intersectsBefore \o last.intersectsBefore
    /\ last.pushed[1].distance[1] * last.pushed[2].distance[2]
           > last.pushed[2].distance[1] * last.pushed[1].distance[2]

====
